---- MODULE Spec2Model ----
(***************************************************************************)
(* Model of rename_keva_to_respire.py: a directory tree is walked once     *)
(* into a snapshot (all_files, all_dirs); then the file contents are       *)
(* rewritten, the files renamed, the directories renamed and at last the   *)
(* root.  Strings are sequences of one-character strings, a path is a      *)
(* sequence of names, the file system is a function from the existing      *)
(* paths to their nodes.                                                   *)
(***************************************************************************)
EXTENDS Integers, Sequences, FiniteSets, TLC

VARIABLES fs, root_path, old_text, new_text, dry_run,
          all_files, all_dirs, pc, idx,
          modified_files, renamed_files, renamed_dirs,
          run, fs0, prev, trace

vars == <<fs, root_path, old_text, new_text, dry_run, all_files, all_dirs,
          pc, idx, modified_files, renamed_files, renamed_dirs,
          run, fs0, prev, trace>>

(***************************************************************************)
(* Bounds of the model.                                                    *)
(***************************************************************************)
MaxNodes == 2
MaxFaults == 1
MaxRuns == 2

(***************************************************************************)
(* Strings.                                                                *)
(***************************************************************************)
CharOrder == <<".", "a", "b", "e", "n", "o", "s", "v">>

CharRank(c) == CHOOSE k \in 1..Len(CharOrder) : CharOrder[k] = c

\* s < t in the lexicographic order of the characters (the order a sorted
\* directory listing has).
RECURSIVE StrLess(_, _)
StrLess(s, t) ==
    IF t = <<>> THEN FALSE
    ELSE IF s = <<>> THEN TRUE
    ELSE IF Head(s) = Head(t) THEN StrLess(Tail(s), Tail(t))
    ELSE CharRank(Head(s)) < CharRank(Head(t))

\* str.startswith
StartsWith(s, p) == Len(p) <= Len(s) /\ SubSeq(s, 1, Len(p)) = p

\* str.endswith
EndsWith(s, p) == Len(p) <= Len(s) /\ SubSeq(s, Len(s) - Len(p) + 1, Len(s)) = p

\* old in s
Contains(s, old) == \E k \in 0..(Len(s) - Len(old)) : SubSeq(s, k + 1, k + Len(old)) = old

\* str.replace(old, new, 1): only the leftmost occurrence is replaced
RECURSIVE ReplaceFirst(_, _, _)
ReplaceFirst(s, old, new) ==
    IF Len(s) < Len(old) THEN s
    ELSE IF SubSeq(s, 1, Len(old)) = old
         THEN new \o SubSeq(s, Len(old) + 1, Len(s))
         ELSE <<Head(s)>> \o ReplaceFirst(Tail(s), old, new)

\* str.replace(old, new) for a non-empty old: the leftmost occurrence is
\* replaced, the scan goes on behind the matched span.
RECURSIVE Replace(_, _, _)
Replace(s, old, new) ==
    IF Len(s) < Len(old) THEN s
    ELSE IF SubSeq(s, 1, Len(old)) = old
         THEN new \o Replace(SubSeq(s, Len(old) + 1, Len(s)), old, new)
         ELSE <<Head(s)>> \o Replace(Tail(s), old, new)

(***************************************************************************)
(* Paths and the file system.  A node is a file or a directory; org is the *)
(* path the node had in the initial tree and identifies it across renames. *)
(* rd, wr and mv say what the operating system answers when the node is    *)
(* read, written and renamed.                                              *)
(***************************************************************************)
Last(p) == p[Len(p)]

Parent(p) == SubSeq(p, 1, Len(p) - 1)

\* q lies strictly beneath p
Beneath(q, p) == Len(q) > Len(p) /\ SubSeq(q, 1, Len(p)) = p

Children(f, top) == {p \in DOMAIN f : Len(p) = Len(top) + 1 /\ Parent(p) = top}

Exists(f, p) == p \in DOMAIN f

IsFile(f, p) == p \in DOMAIN f /\ f[p].kind = "file"

FileNode(p, c) == [kind |-> "file", content |-> c, org |-> p, rd |-> "ok", wr |-> "ok", mv |-> "ok"]

DirNode(p) == [kind |-> "dir", content |-> <<>>, org |-> p, rd |-> "ok", wr |-> "ok", mv |-> "ok"]

(***************************************************************************)
(* The inputs: names, contents and token pairs the trees are built from.   *)
(***************************************************************************)
NamePool == { <<"a">>, <<"b">>, <<"a", "a", "b">>, <<".", "a">>,
              <<"a", ".", "s", "o">>, <<"v", "e", "n", "v">> }

RootNames == { <<"a">>, <<"b">> }

ContentPool == { <<"b">>, <<"a", "a", "b">>, <<"a", "a", "a">> }

\* <<old, new>>: disjoint tokens, old = new (the defaults of main), new
\* containing old, a pair whose replacement can form old again, and an old
\* token that overlaps itself.
TokenPairs == { << <<"a">>, <<"b">> >>, << <<"a">>, <<"a">> >>,
                << <<"a">>, <<"a", "a">> >>, << <<"a", "b">>, <<"b">> >>,
                << <<"a", "a">>, <<"b">> >> }

NewNodes(p) == {DirNode(p)} \cup {FileNode(p, c) : c \in ContentPool}

\* p comes before q: the shorter path first, paths of one length in the
\* order of their names
RECURSIVE NamesLess(_, _)
NamesLess(p, q) ==
    IF p = <<>> THEN FALSE
    ELSE IF Head(p) = Head(q) THEN NamesLess(Tail(p), Tail(q))
    ELSE StrLess(Head(p), Head(q))

PathLess(p, q) == Len(p) < Len(q) \/ (Len(p) = Len(q) /\ NamesLess(p, q))

\* the trees t extended by one node under one of its directories; the new
\* path comes after every path of t, so that each tree is built once
AddNode(T) ==
    UNION { UNION { UNION { { t @@ (Append(q, nm) :> n) : n \in NewNodes(Append(q, nm)) }
                            : nm \in {x \in NamePool : \A y \in DOMAIN t : PathLess(y, Append(q, x))} }
                    : q \in {d \in DOMAIN t : t[d].kind = "dir"} }
            : t \in T }

\* the trees of exactly n nodes beneath the root
RECURSIVE TreesOfSize(_)
TreesOfSize(n) ==
    IF n = 0 THEN { (<<r>> :> DirNode(<<r>>)) : r \in RootNames }
    ELSE AddNode(TreesOfSize(n - 1))

TreesUpTo(n) == UNION { TreesOfSize(k) : k \in 0..n }

Faulty(t) == {x \in DOMAIN t : t[x].rd # "ok" \/ t[x].wr # "ok" \/ t[x].mv # "ok"}

\* the trees t with one more node that answers a read, a write or a rename
\* with an error; the node comes after the faulty nodes of t
AddFault(T) ==
    UNION { UNION { {[t EXCEPT ![p].mv = "fail"]} \cup
                    (IF t[p].kind = "file"
                     THEN { [t EXCEPT ![p].rd = v] : v \in {"undecodable", "denied"} } \cup
                          { [t EXCEPT ![p].wr = v] : v \in {"denied", "ioerr"} }
                     ELSE {})
                    : p \in {x \in DOMAIN t : \A y \in Faulty(t) : PathLess(y, x)} }
            : t \in T }

\* the trees of T with exactly k faulty nodes
RECURSIVE WithExactlyFaults(_, _)
WithExactlyFaults(T, k) ==
    IF k = 0 THEN T ELSE AddFault(WithExactlyFaults(T, k - 1))

WithFaults(T, k) == UNION { WithExactlyFaults(T, j) : j \in 0..k }

\* the trees a run may start from: a tree of at most MaxNodes nodes, at most
\* MaxFaults of them faulty
InitialTrees(t) == WithFaults({t}, MaxFaults)

(***************************************************************************)
(* The traversal: os.walk(root_path, topdown=False) and the filters of the *)
(* loop that builds all_files and all_dirs.                                *)
(***************************************************************************)
ExcludedDirs == { <<"n", "o", "d", "e", "_", "m", "o", "d", "u", "l", "e", "s">>,
                  <<"_", "_", "p", "y", "c", "a", "c", "h", "e", "_", "_">>,
                  <<"v", "e", "n", "v">>,
                  <<".", "g", "i", "t">> }

BinaryExts == { <<".", "p", "y", "c">>, <<".", "p", "y", "o">>, <<".", "e", "x", "e">>,
                <<".", "d", "l", "l">>, <<".", "s", "o">>, <<".", "d", "y", "l", "i", "b">> }

IsHidden(nm) == StartsWith(nm, <<".">>)

IsBinary(nm) == \E e \in BinaryExts : EndsWith(nm, e)

\* the test of the list comprehension that filters dirs
KeepDir(d) == ~IsHidden(d) /\ d \notin ExcludedDirs

\* the file test without the extensions
KeepFileHiddenOnly(nm) == ~IsHidden(nm)

\* the test that admits a file to all_files
KeepFile(nm) == ~IsHidden(nm) /\ ~IsBinary(nm)

\* the names of S as a listing: ascending, or descending when rev
RECURSIVE Listing(_, _)
Listing(S, rev) ==
    IF S = {} THEN <<>>
    ELSE LET m == CHOOSE x \in S : \A y \in S \ {x} :
                      IF rev THEN StrLess(y, x) ELSE StrLess(x, y)
         IN <<m>> \o Listing(S \ {m}, rev)

RECURSIVE WalkTuples(_, _, _)
RECURSIVE WalkInto(_, _, _, _)
\* the tuples of the directories ds of top, one subtree after the other
WalkInto(f, top, ds, rev) ==
    IF ds = <<>> THEN <<>>
    ELSE WalkTuples(f, Append(top, Head(ds)), rev) \o WalkInto(f, top, Tail(ds), rev)

\* os.walk(top): topdown left at its default, the tuple of top before its
\* subdirectories, and the descent only into the directories the caller
\* kept in dirs
RECURSIVE WalkTuplesTopDown(_, _, _)
RECURSIVE WalkIntoTopDown(_, _, _, _)
WalkIntoTopDown(f, top, ds, rev) ==
    IF ds = <<>> THEN <<>>
    ELSE WalkTuplesTopDown(f, Append(top, Head(ds)), rev) \o WalkIntoTopDown(f, top, Tail(ds), rev)

WalkTuplesTopDown(f, top, rev) ==
    LET dirs == Listing({Last(p) : p \in {c \in Children(f, top) : f[c].kind = "dir"}}, rev)
        files == Listing({Last(p) : p \in {c \in Children(f, top) : f[c].kind = "file"}}, rev)
    IN <<[root |-> top, dirs |-> dirs, files |-> files]>> \o
       WalkIntoTopDown(f, top, SelectSeq(dirs, KeepDir), rev)

\* os.walk(top, topdown=False): the tuples (root, dirs, files), every
\* subdirectory of top before top itself.  The caller's assignment to
\* dirs[:] happens when the tuple of top is yielded, after the descent.
WalkTuples(f, top, rev) ==
    LET dirs == Listing({Last(p) : p \in {c \in Children(f, top) : f[c].kind = "dir"}}, rev)
        files == Listing({Last(p) : p \in {c \in Children(f, top) : f[c].kind = "file"}}, rev)
    IN WalkInto(f, top, dirs, rev) \o <<[root |-> top, dirs |-> dirs, files |-> files]>>

PathsOf(top, names) == [k \in 1..Len(names) |-> Append(top, names[k])]

\* the body of the for loop over os.walk, folded over the tuples
RECURSIVE Collect(_, _)
Collect(tuples, acc) ==
    IF tuples = <<>> THEN acc
    ELSE LET t == Head(tuples)
             dirs == SelectSeq(t.dirs, KeepDir)
             files == SelectSeq(t.files, KeepFile)
         IN Collect(Tail(tuples),
                    [files |-> acc.files \o PathsOf(t.root, files),
                     dirs |-> acc.dirs \o PathsOf(t.root, dirs)])

Snapshot(f, rootp, rev) == Collect(WalkTuples(f, rootp, rev), [files |-> <<>>, dirs |-> <<>>])

(***************************************************************************)
(* replace_in_file and rename_item.                                        *)
(***************************************************************************)
SetContent(f, p, c) == [f EXCEPT ![p].content = c]

\* replace_in_file: the outcomes [fs, ret, raised] of one call; raised says
\* that an exception left the function.  Both except clauses return, so
\* none does.  open(.., 'w') truncates the file before write() runs, so an
\* error raised after the open leaves what had reached the file by then:
\* some strict prefix of new_content.
replace_in_file(f, file_path, old, new) ==
    LET n == f[file_path]
        new_content == Replace(n.content, old, new)
        Out(g, b) == [fs |-> g, ret |-> b, raised |-> FALSE]
    IN IF n.rd # "ok" THEN {Out(f, FALSE)}
       ELSE IF ~Contains(n.content, old) THEN {Out(f, FALSE)}
       ELSE IF n.wr = "denied" THEN {Out(f, FALSE)}
       ELSE IF n.wr = "ioerr"
            THEN {Out(SetContent(f, file_path, SubSeq(new_content, 1, k)), FALSE)
                     : k \in 0..(Len(new_content) - 1)}
       ELSE {Out(SetContent(f, file_path, new_content), TRUE)}

\* the subtree at p moved to q; what was at q is replaced
Move(f, p, q) ==
    LET gone == {x \in DOMAIN f : x = p \/ Beneath(x, p) \/ x = q \/ Beneath(x, q)}
        moved == {x \in DOMAIN f : x = p \/ Beneath(x, p)}
        Dest(x) == q \o SubSeq(x, Len(p) + 1, Len(x))
        Src(y) == p \o SubSeq(y, Len(q) + 1, Len(y))
    IN [y \in (DOMAIN f \ gone) \cup {Dest(x) : x \in moved} |->
          IF y = q \/ Beneath(y, q) THEN f[Src(y)] ELSE f[y]]

\* Path.rename(new_path) succeeds: the system permits it and the target is
\* free, the path itself, a file replaced by a file or an empty directory
\* replaced by a directory
CanRename(f, p, q) ==
    /\ f[p].mv = "ok"
    /\ \/ q = p
       \/ q \notin DOMAIN f
       \/ f[p].kind = "file" /\ f[q].kind = "file"
       \/ f[p].kind = "dir" /\ f[q].kind = "dir" /\ Children(f, q) = {}

\* rename_item with the new name built by str.replace(old, new, 1)
rename_item_first_only(f, old_path, old, new) ==
    IF Contains(Last(old_path), old)
    THEN LET new_path == Append(Parent(old_path), ReplaceFirst(Last(old_path), old, new))
         IN IF CanRename(f, old_path, new_path)
            THEN [fs |-> IF new_path = old_path THEN f ELSE Move(f, old_path, new_path),
                  ret |-> new_path, renamed |-> TRUE, raised |-> FALSE]
            ELSE [fs |-> f, ret |-> old_path, renamed |-> FALSE, raised |-> FALSE]
    ELSE [fs |-> f, ret |-> old_path, renamed |-> FALSE, raised |-> FALSE]

\* rename_item without the try: the error of Path.rename leaves the function
rename_item_uncaught(f, old_path, old, new) ==
    IF Contains(Last(old_path), old)
    THEN LET new_path == Append(Parent(old_path), Replace(Last(old_path), old, new))
         IN IF CanRename(f, old_path, new_path)
            THEN [fs |-> IF new_path = old_path THEN f ELSE Move(f, old_path, new_path),
                  ret |-> new_path, renamed |-> TRUE, raised |-> FALSE]
            ELSE [fs |-> f, ret |-> old_path, renamed |-> FALSE, raised |-> TRUE]
    ELSE [fs |-> f, ret |-> old_path, renamed |-> FALSE, raised |-> FALSE]

\* rename_item: [fs, ret, renamed, raised] with ret the path returned,
\* renamed whether the "Renamed:" line was printed and raised whether an
\* exception left the function (the except clause catches every Exception)
rename_item(f, old_path, old, new) ==
    IF Contains(Last(old_path), old)
    THEN LET new_path == Append(Parent(old_path), Replace(Last(old_path), old, new))
         IN IF CanRename(f, old_path, new_path)
            THEN [fs |-> IF new_path = old_path THEN f ELSE Move(f, old_path, new_path),
                  ret |-> new_path, renamed |-> TRUE, raised |-> FALSE]
            ELSE [fs |-> f, ret |-> old_path, renamed |-> FALSE, raised |-> FALSE]
    ELSE [fs |-> f, ret |-> old_path, renamed |-> FALSE, raised |-> FALSE]

(***************************************************************************)
(* The program: main and the passes of process_directory, one action per   *)
(* loop iteration.  trace records what each iteration did to which node,   *)
(* fs0 is the tree the run started from and prev the summary of the run    *)
(* before.                                                                 *)
(***************************************************************************)
TopLevel(f) == {p \in DOMAIN f : Len(p) = 1}

Event(pass, path, f, res) ==
    [pass |-> pass, path |-> path,
     org |-> IF path \in DOMAIN f THEN f[path].org ELSE <<>>, res |-> res]

NoRun == [valid |-> FALSE, dry_run |-> FALSE, modified_files |-> 0,
          renamed_files |-> 0, renamed_dirs |-> 0, trace |-> <<>>, pc |-> "none"]

Init ==
    /\ \E t \in TreesUpTo(MaxNodes) : fs \in InitialTrees(t)
    /\ root_path \in TopLevel(fs)
    /\ \E tp \in TokenPairs : old_text = tp[1] /\ new_text = tp[2]
    /\ dry_run \in BOOLEAN
    /\ all_files = <<>>
    /\ all_dirs = <<>>
    /\ pc = "main"
    /\ idx = 1
    /\ modified_files = 0
    /\ renamed_files = 0
    /\ renamed_dirs = 0
    /\ run = 1
    /\ fs0 = fs
    /\ prev = NoRun
    /\ trace = <<>>

\* main: a path that does not exist ends the process with status 1
Main ==
    /\ pc = "main"
    /\ pc' = IF Exists(fs, root_path) THEN "walk" ELSE "exit1"
    /\ UNCHANGED <<fs, root_path, old_text, new_text, dry_run, all_files, all_dirs,
                   idx, modified_files, renamed_files, renamed_dirs, run, fs0, prev, trace>>

\* the snapshot; the order of a directory listing is the system's choice
Walk ==
    /\ pc = "walk"
    /\ \E rev \in BOOLEAN :
          LET snap == Snapshot(fs, root_path, rev)
          IN all_files' = snap.files /\ all_dirs' = snap.dirs
    /\ pc' = "content"
    /\ idx' = 1
    /\ modified_files' = 0
    /\ UNCHANGED <<fs, root_path, old_text, new_text, dry_run,
                   renamed_files, renamed_dirs, run, fs0, prev, trace>>

\* one iteration of "Process file contents"
ContentStep ==
    /\ pc = "content"
    /\ idx <= Len(all_files)
    /\ LET file_path == all_files[idx]
       IN IF Exists(fs, file_path) /\ IsFile(fs, file_path)
          THEN IF dry_run
               THEN LET hit == fs[file_path].rd = "ok" /\ Contains(fs[file_path].content, old_text)
                    IN /\ fs' = fs
                       /\ modified_files' = IF hit THEN modified_files + 1 ELSE modified_files
                       /\ trace' = Append(trace, Event("content", file_path, fs,
                                                       IF hit THEN "would" ELSE "none"))
                       /\ pc' = pc
               ELSE \E r \in replace_in_file(fs, file_path, old_text, new_text) :
                       /\ fs' = r.fs
                       /\ modified_files' = IF r.ret THEN modified_files + 1 ELSE modified_files
                       /\ trace' = Append(trace, Event("content", file_path, fs,
                                                       IF r.ret THEN "done" ELSE "none"))
                       /\ pc' = IF r.raised THEN "crashed" ELSE pc
          ELSE /\ fs' = fs
               /\ modified_files' = modified_files
               /\ trace' = Append(trace, Event("content", file_path, fs, "stale"))
               /\ pc' = pc
    /\ idx' = idx + 1
    /\ UNCHANGED <<root_path, old_text, new_text, dry_run, all_files, all_dirs,
                   renamed_files, renamed_dirs, run, fs0, prev>>

\* "Modified n file(s)"; the file rename loop begins
ContentDone ==
    /\ pc = "content"
    /\ idx > Len(all_files)
    /\ pc' = "rename_files"
    /\ idx' = 1
    /\ renamed_files' = 0
    /\ UNCHANGED <<fs, root_path, old_text, new_text, dry_run, all_files, all_dirs,
                   modified_files, renamed_dirs, run, fs0, prev, trace>>

\* the rename loop without the dry_run test
RenameVisitIgnoringDry(f, path, old, new, dry) ==
    IF Exists(f, path) /\ Contains(Last(path), old)
    THEN LET r == rename_item(f, path, old, new)
         IN [fs |-> r.fs, counted |-> 1,
             res |-> IF r.renamed THEN "done" ELSE "failed", raised |-> r.raised]
    ELSE [fs |-> f, counted |-> 0, res |-> IF Exists(f, path) THEN "none" ELSE "stale",
          raised |-> FALSE]

\* the rename loop counting the renames done instead of the calls
RenameVisitCountingDone(f, path, old, new, dry) ==
    IF Exists(f, path) /\ Contains(Last(path), old)
    THEN IF dry
         THEN [fs |-> f, counted |-> 1, res |-> "would", raised |-> FALSE]
         ELSE LET r == rename_item(f, path, old, new)
              IN [fs |-> r.fs, counted |-> IF r.renamed THEN 1 ELSE 0,
                  res |-> IF r.renamed THEN "done" ELSE "failed", raised |-> r.raised]
    ELSE [fs |-> f, counted |-> 0, res |-> IF Exists(f, path) THEN "none" ELSE "stale",
          raised |-> FALSE]

\* one iteration of a rename loop over the snapshot paths:
\* [fs, counted, res, raised]
RenameVisit(f, path, old, new, dry) ==
    IF Exists(f, path) /\ Contains(Last(path), old)
    THEN IF dry
         THEN [fs |-> f, counted |-> 1, res |-> "would", raised |-> FALSE]
         ELSE LET r == rename_item(f, path, old, new)
              IN [fs |-> r.fs, counted |-> IF r.raised THEN 0 ELSE 1,
                  res |-> IF r.renamed THEN "done" ELSE "failed", raised |-> r.raised]
    ELSE [fs |-> f, counted |-> 0, res |-> IF Exists(f, path) THEN "none" ELSE "stale",
          raised |-> FALSE]

\* one iteration of "Rename files"
RenameFilesStep ==
    /\ pc = "rename_files"
    /\ idx <= Len(all_files)
    /\ LET v == RenameVisit(fs, all_files[idx], old_text, new_text, dry_run)
       IN /\ fs' = v.fs
          /\ renamed_files' = renamed_files + v.counted
          /\ trace' = Append(trace, Event("rename_files", all_files[idx], fs, v.res))
          /\ pc' = IF v.raised THEN "crashed" ELSE pc
    /\ idx' = idx + 1
    /\ UNCHANGED <<root_path, old_text, new_text, dry_run, all_files, all_dirs,
                   modified_files, renamed_dirs, run, fs0, prev>>

\* "Renamed n file(s)"; the directory rename loop begins
RenameFilesDone ==
    /\ pc = "rename_files"
    /\ idx > Len(all_files)
    /\ pc' = "rename_dirs"
    /\ idx' = 1
    /\ renamed_dirs' = 0
    /\ UNCHANGED <<fs, root_path, old_text, new_text, dry_run, all_files, all_dirs,
                   modified_files, renamed_files, run, fs0, prev, trace>>

\* one iteration of "Rename directories"
RenameDirsStep ==
    /\ pc = "rename_dirs"
    /\ idx <= Len(all_dirs)
    /\ LET v == RenameVisit(fs, all_dirs[idx], old_text, new_text, dry_run)
       IN /\ fs' = v.fs
          /\ renamed_dirs' = renamed_dirs + v.counted
          /\ trace' = Append(trace, Event("rename_dirs", all_dirs[idx], fs, v.res))
          /\ pc' = IF v.raised THEN "crashed" ELSE pc
    /\ idx' = idx + 1
    /\ UNCHANGED <<root_path, old_text, new_text, dry_run, all_files, all_dirs,
                   modified_files, renamed_files, run, fs0, prev>>

\* "Renamed n directory(ies)"; the root is next
RenameDirsDone ==
    /\ pc = "rename_dirs"
    /\ idx > Len(all_dirs)
    /\ pc' = "root"
    /\ UNCHANGED <<fs, root_path, old_text, new_text, dry_run, all_files, all_dirs, idx,
                   modified_files, renamed_files, renamed_dirs, run, fs0, prev, trace>>

\* the root directory itself; process_directory returns and main ends
RootStep ==
    /\ pc = "root"
    /\ IF Contains(Last(root_path), old_text)
       THEN IF dry_run
            THEN /\ fs' = fs
                 /\ trace' = Append(trace, Event("root", root_path, fs, "would"))
                 /\ pc' = "done"
            ELSE LET r == rename_item(fs, root_path, old_text, new_text)
                 IN /\ fs' = r.fs
                    /\ trace' = Append(trace, Event("root", root_path, fs,
                                                    IF r.renamed THEN "done" ELSE "failed"))
                    /\ pc' = IF r.raised THEN "crashed" ELSE "done"
       ELSE /\ fs' = fs
            /\ trace' = Append(trace, Event("root", root_path, fs, "none"))
            /\ pc' = "done"
    /\ UNCHANGED <<root_path, old_text, new_text, dry_run, all_files, all_dirs, idx,
                   modified_files, renamed_files, renamed_dirs, run, fs0, prev>>

\* the tool is started again on the tree, with the same tokens
NextRun ==
    /\ pc = "done"
    /\ run < MaxRuns
    /\ run' = run + 1
    /\ prev' = [valid |-> TRUE, dry_run |-> dry_run, modified_files |-> modified_files,
                renamed_files |-> renamed_files, renamed_dirs |-> renamed_dirs,
                trace |-> trace, pc |-> pc]
    /\ dry_run' \in BOOLEAN
    /\ root_path' \in {root_path} \cup TopLevel(fs)
    /\ pc' = "main"
    /\ fs0' = fs
    /\ trace' = <<>>
    /\ all_files' = <<>>
    /\ all_dirs' = <<>>
    /\ idx' = 1
    /\ modified_files' = 0
    /\ renamed_files' = 0
    /\ renamed_dirs' = 0
    /\ UNCHANGED <<fs, old_text, new_text>>

Next ==
    \/ Main
    \/ Walk
    \/ ContentStep
    \/ ContentDone
    \/ RenameFilesStep
    \/ RenameFilesDone
    \/ RenameDirsStep
    \/ RenameDirsDone
    \/ RootStep
    \/ NextRun

Spec == Init /\ [][Next]_vars

(***************************************************************************)
(* Vocabulary of the properties.                                           *)
(***************************************************************************)
CharsOf(s) == {s[k] : k \in 1..Len(s)}

\* the tokens have no character in common
DisjointTokens == CharsOf(old_text) \cap CharsOf(new_text) = {}

\* str.count(sub): the occurrences of sub scanned left to right, each one
\* consuming its span
RECURSIVE Count(_, _)
Count(s, sub) ==
    IF Len(s) < Len(sub) THEN 0
    ELSE IF SubSeq(s, 1, Len(sub)) = sub
         THEN 1 + Count(SubSeq(s, Len(sub) + 1, Len(s)), sub)
         ELSE Count(Tail(s), sub)

NumEvents(tr, pass, res) ==
    Cardinality({m \in 1..Len(tr) : tr[m].pass = pass /\ tr[m].res = res})

SnapshotPaths == {all_files[k] : k \in 1..Len(all_files)} \cup {all_dirs[k] : k \in 1..Len(all_dirs)}

\* p has, between the root and its own name, a directory the filter of the
\* walk rejects
UnderPruned(p) == \E k \in 2..(Len(p) - 1) : ~KeepDir(p[k])

\* a rename loop has visited p before position m of the trace
RenameVisitedBefore(p, m) ==
    \E j \in 1..(m - 1) : trace[j].pass \in {"rename_files", "rename_dirs"} /\ trace[j].path = p

ApplyRunDone == ~dry_run /\ pc = "done"

ContentPassOver == ~dry_run /\ pc = "content" /\ idx > Len(all_files)

SecondApplyDone == ApplyRunDone /\ prev.valid /\ ~prev.dry_run

\* the events a complete run leaves, in order
ExpectedVisits ==
    [k \in 1..Len(all_files) |-> <<"content", all_files[k]>>] \o
    [k \in 1..Len(all_files) |-> <<"rename_files", all_files[k]>>] \o
    [k \in 1..Len(all_dirs) |-> <<"rename_dirs", all_dirs[k]>>] \o
    << <<"root", root_path>> >>

Visits == [m \in 1..Len(trace) |-> <<trace[m].pass, trace[m].path>>]

(***************************************************************************)
(* The claims.                                                             *)
(***************************************************************************)

\* C1: nothing beneath a directory whose name starts with "." or is in the
\* exclusion set enters the snapshot or is visited by any pass.
C1_PrunedSubtreesUntouched ==
    /\ \A p \in SnapshotPaths : ~UnderPruned(p)
    /\ \A m \in 1..Len(trace) : ~UnderPruned(trace[m].path)

\* C2: a dry run leaves the tree unchanged: every content and every name,
\* the root's included, is what it was when the run started.
C2_DryRunLeavesTree == dry_run => fs = fs0

C2_Witness ==
    /\ dry_run /\ pc = "done"
    /\ modified_files > 0 /\ renamed_files > 0 /\ renamed_dirs > 0
    /\ Contains(Last(root_path), old_text)

\* C3 (as claimed): a dry run and an apply run started from the same tree
\* report the same three counts, whichever reads, writes and renames fail.
C3_DryAndApplyCountsAgree ==
    (ApplyRunDone /\ prev.valid /\ prev.dry_run) =>
        /\ modified_files = prev.modified_files
        /\ renamed_files = prev.renamed_files
        /\ renamed_dirs = prev.renamed_dirs

\* the snapshot files that can be read and contain the old token but cannot
\* be written
UnwritableHits ==
    {k \in 1..Len(all_files) :
        /\ fs0[all_files[k]].rd = "ok"
        /\ Contains(fs0[all_files[k]].content, old_text)
        /\ fs0[all_files[k]].wr # "ok"}

\* C3 (amended): a dry run and an apply run started from the same tree
\* report the same numbers of files and directories renamed, also when
\* renames fail; the dry run's number of files modified is the apply run's
\* plus the files whose write fails.
C3_CountsAgreeUpToFailedWrites ==
    (ApplyRunDone /\ prev.valid /\ prev.dry_run) =>
        /\ prev.modified_files = modified_files + Cardinality(UnwritableHits)
        /\ renamed_files = prev.renamed_files
        /\ renamed_dirs = prev.renamed_dirs

C3_Witness ==
    /\ ApplyRunDone /\ prev.valid /\ prev.dry_run
    /\ modified_files > 0
    /\ NumEvents(trace, "rename_files", "failed") + NumEvents(trace, "rename_dirs", "failed") > 0

\* C4 (as claimed): for every token pair the second of two apply runs
\* reports zero files modified, zero files renamed, zero directories renamed
\* and changes nothing.
C4_SecondApplyReportsZero ==
    SecondApplyDone =>
        /\ modified_files = 0 /\ renamed_files = 0 /\ renamed_dirs = 0
        /\ fs = fs0

\* C4 (amended): when the new token shares no character with the old one,
\* the second of two apply runs reports zero files modified and changes
\* nothing, and the renames it reports are those that failed in the first
\* run.
C4_IdempotentForDisjointTokens ==
    (SecondApplyDone /\ DisjointTokens) =>
        /\ modified_files = 0
        /\ fs = fs0
        /\ renamed_files = NumEvents(prev.trace, "rename_files", "failed")
        /\ renamed_dirs = NumEvents(prev.trace, "rename_dirs", "failed")

C4_Witness ==
    /\ SecondApplyDone /\ DisjointTokens
    /\ prev.modified_files > 0 /\ prev.renamed_files > 0 /\ prev.renamed_dirs > 0

\* C5 (as claimed): after the content pass of an apply run every readable
\* snapshot file that contained the old token has no occurrence of it and
\* has the new token once per replaced occurrence, plus those it had.
C5_OldGoneNewCounted ==
    ContentPassOver =>
        \A p \in {all_files[k] : k \in 1..Len(all_files)} :
            (fs0[p].rd = "ok" /\ Contains(fs0[p].content, old_text)) =>
                /\ ~Contains(fs[p].content, old_text)
                /\ Count(fs[p].content, new_text) =
                      Count(fs0[p].content, old_text) + Count(fs0[p].content, new_text)

\* C5 (amended): after the content pass of an apply run every snapshot file
\* that contained the old token and could be read and written holds its
\* former content with every occurrence replaced, scanned left to right;
\* when the tokens share no character it has no occurrence of the old token
\* and at least one occurrence of the new token per replaced occurrence.
C5_RewrittenFilesHoldReplacement ==
    ContentPassOver =>
        \A p \in {all_files[k] : k \in 1..Len(all_files)} :
            (fs0[p].rd = "ok" /\ fs0[p].wr = "ok" /\ Contains(fs0[p].content, old_text)) =>
                /\ fs[p].content = Replace(fs0[p].content, old_text, new_text)
                /\ DisjointTokens =>
                      /\ ~Contains(fs[p].content, old_text)
                      /\ Count(fs[p].content, new_text) >= Count(fs0[p].content, old_text)

C5_Witness ==
    /\ ContentPassOver /\ DisjointTokens
    /\ \E p \in {all_files[k] : k \in 1..Len(all_files)} :
          /\ fs0[p].rd = "ok" /\ fs0[p].wr = "ok"
          /\ Count(fs0[p].content, old_text) >= 2
          /\ fs[p].content # fs0[p].content

\* C6: in an apply run a directory is visited for renaming only after every
\* snapshot file and directory beneath it, the root after every snapshot
\* path, and no snapshot path is missing when its turn comes.
C6_RenamesBottomUp ==
    ~dry_run =>
        /\ \A m \in 1..Len(trace) :
              trace[m].pass = "rename_dirs" =>
                  \A p \in SnapshotPaths :
                      Beneath(p, trace[m].path) => RenameVisitedBefore(p, m)
        /\ \A m \in 1..Len(trace) :
              trace[m].pass = "root" => \A p \in SnapshotPaths : RenameVisitedBefore(p, m)
        /\ \A m \in 1..Len(trace) : trace[m].res # "stale"

C6_Witness ==
    /\ ApplyRunDone
    /\ \E m, n \in 1..Len(trace) :
          /\ m < n
          /\ trace[m].pass = "rename_dirs" /\ trace[m].res = "done"
          /\ trace[n].pass = "rename_dirs" /\ trace[n].res = "done"
          /\ Beneath(trace[m].path, trace[n].path)
    /\ trace[Len(trace)].pass = "root" /\ trace[Len(trace)].res = "done"

\* C7: after replace_in_file has returned, the file holds either its former
\* content with every occurrence replaced (result True) or exactly its
\* former content (result False).
C7_RewriteAllOrNothing ==
    (~dry_run /\ pc = "content") =>
        \A m \in 1..Len(trace) :
            LET p == trace[m].path
            IN \/ trace[m].res = "done" /\
                  fs[p].content = Replace(fs0[p].content, old_text, new_text)
               \/ trace[m].res # "done" /\ fs[p].content = fs0[p].content

\* C8: no failure of a read, a write or a rename aborts an apply run: no
\* exception leaves a pass, every loop stays within its list, a
\* finished run has visited every snapshot file in the content pass and in
\* the file rename pass, every snapshot directory in the directory rename
\* pass and the root, and an item whose rename failed is where it was.
C8_FailuresDoNotAbort ==
    /\ pc # "crashed"
    /\ pc \in {"content", "rename_files"} => idx \in 1..(Len(all_files) + 1)
    /\ pc = "rename_dirs" => idx \in 1..(Len(all_dirs) + 1)
    /\ ApplyRunDone => Visits = ExpectedVisits
    /\ (~dry_run /\ trace # <<>> /\ trace[Len(trace)].res = "failed") =>
          /\ trace[Len(trace)].path \in DOMAIN fs
          /\ fs[trace[Len(trace)].path].org = trace[Len(trace)].org
    /\ (~dry_run /\ pc = "content") =>
          \A m \in 1..Len(trace) : trace[m].path \in DOMAIN fs

C8_Witness ==
    /\ ApplyRunDone
    /\ NumEvents(trace, "rename_files", "failed") > 0
    /\ \E m \in 1..Len(trace) :
          /\ trace[m].pass = "content" /\ trace[m].res = "none"
          /\ \E q \in DOMAIN fs0 : fs0[q].org = trace[m].org /\ fs0[q].wr # "ok"
                                   /\ Contains(fs0[q].content, old_text)

\* C9 (as claimed): a file with a binary extension, not hidden, inside the
\* tree, whose base name contains the old token is taken up by the file
\* rename pass of an apply run.
C9_BinaryFilesRenamed ==
    ApplyRunDone =>
        \A p \in DOMAIN fs0 :
            (/\ fs0[p].kind = "file" /\ IsBinary(Last(p)) /\ ~IsHidden(Last(p))
             /\ ~UnderPruned(p) /\ Contains(Last(p), old_text)) =>
                \E m \in 1..Len(trace) : trace[m].pass = "rename_files" /\ trace[m].path = p

\* C9 (amended): a file with a binary extension is in the snapshot of no
\* pass: it is never visited, and it keeps its content and its base name
\* even when the base name contains the old token.
C9_BinaryFilesOutOfSnapshot ==
    \A p \in DOMAIN fs0 :
        (fs0[p].kind = "file" /\ IsBinary(Last(p))) =>
            /\ p \notin SnapshotPaths
            /\ \A m \in 1..Len(trace) : trace[m].path # p
            /\ \A q \in DOMAIN fs :
                  fs[q].org = fs0[p].org =>
                      Last(q) = Last(p) /\ fs[q].content = fs0[p].content

C9_Witness ==
    /\ ApplyRunDone
    /\ \E p \in DOMAIN fs0 :
          /\ fs0[p].kind = "file" /\ IsBinary(Last(p)) /\ ~UnderPruned(p)
          /\ Contains(Last(p), old_text) /\ Contains(fs0[p].content, old_text)
          /\ fs0[p].rd = "ok" /\ fs0[p].wr = "ok" /\ fs0[p].mv = "ok"
          /\ p \in DOMAIN fs

\* C10: the counts of a finished apply run are the numbers of files whose
\* content was rewritten, of files whose rename succeeded and of
\* directories whose rename succeeded.
C10_CountsAreSuccesses ==
    ApplyRunDone =>
        /\ modified_files = NumEvents(trace, "content", "done")
        /\ renamed_files = NumEvents(trace, "rename_files", "done")
        /\ renamed_dirs = NumEvents(trace, "rename_dirs", "done")

====
